---- MODULE Spec2Model ----
(***************************************************************************)
(* earthpy.mask: _create_mask, _apply_mask and mask_pixels                 *)
(* (src/earthpy/mask.py), modelled on 2-D integer arrays.                  *)
(*                                                                         *)
(* An array is a record [shape, data, masked, mask]: shape = <<rows,cols>>,*)
(* data and mask are row-major sequences, masked says whether the object   *)
(* is a numpy.ma.MaskedArray (mask is all FALSE for a plain ndarray).      *)
(***************************************************************************)
EXTENDS Integers, Sequences, FiniteSets, TLC

\* ------------------------------------------------------------------ bounds
\* QA / mask arrays hold the codes 0..MaxVal
MaxVal == 2
\* the caller's vals list has at most MaxVals entries
MaxVals == 2
\* calls made one after the other on the same caller objects
MaxCalls == 2

QAValues == 0 .. MaxVal
MaskShapes == {<<1, 1>>, <<1, 2>>, <<2, 2>>}
DataShapes == {<<1, 2>>, <<2, 2>>}

\* ------------------------------------------------------------ array basics
Size(shape) == shape[1] * shape[2]

Row(shape, k) == ((k - 1) \div shape[2]) + 1

Col(shape, k) == ((k - 1) % shape[2]) + 1

Idx(shape, i, j) == (i - 1) * shape[2] + j

nomask(shape) == [k \in 1 .. Size(shape) |-> FALSE]

ndarray(shape, data) ==
    [shape |-> shape, data |-> data, masked |-> FALSE, mask |-> nomask(shape)]

\* np.arange(n).reshape(shape)
arange(shape) == ndarray(shape, [k \in 1 .. Size(shape) |-> k - 1])

Elements(a) == {a.data[k] : k \in 1 .. Len(a.data)}

Range(s) == {s[k] : k \in 1 .. Len(s)}

\* ------------------------------------------------- the vals argument object
\* vals is None (the default of mask_pixels) or a python list of numbers
PyNone == [none |-> TRUE, items |-> <<>>]

PyList(s) == [none |-> FALSE, items |-> s]

\* `if vals:` -- None and [] are both falsy
Truthy(vs) == ~vs.none /\ vs.items # <<>>

\* ------------------------------------------------------- python list.sort()
Insert(x, s) ==
    LET k == Cardinality({i \in 1 .. Len(s) : s[i] <= x})
    IN  SubSeq(s, 1, k) \o <<x>> \o SubSeq(s, k + 1, Len(s))

RECURSIVE list_sort(_)
list_sort(s) ==
    IF s = <<>> THEN <<>>
    ELSE Insert(s[Len(s)], list_sort(SubSeq(s, 1, Len(s) - 1)))

\* ------------------------------------------------------------- numpy pieces
RECURSIVE SortedSeq(_)
SortedSeq(S) ==
    IF S = {} THEN <<>>
    ELSE LET m == CHOOSE x \in S : \A y \in S : x <= y
         IN  <<m>> \o SortedSeq(S \ {m})

\* np.unique(mask_arr): the sorted distinct values of the flattened array
np_unique(a) == SortedSeq(Elements(a))

\* `vals in mask_vals` is ndarray.__contains__: (mask_vals == vals).any(),
\* an ELEMENTWISE comparison of the 1-D array with the list under
\* broadcasting.  Shapes (n,) and (k,) with n # k, n # 1, k # 1 do not
\* broadcast: numpy >= 1.25 raises ValueError from ==, older numpy yields
\* False.  strict tells which numpy is installed.
ndarray_contains_nocheck(mask_vals, vs, strict) == "True"

ndarray_contains(mask_vals, vs, strict) ==
    LET n == Len(mask_vals)
        k == Len(vs)
    IN  IF k = n THEN
            IF \E i \in 1 .. n : mask_vals[i] = vs[i] THEN "True" ELSE "False"
        ELSE IF k = 1 THEN
            IF \E i \in 1 .. n : mask_vals[i] = vs[1] THEN "True" ELSE "False"
        ELSE IF n = 1 THEN
            IF \E j \in 1 .. k : mask_vals[1] = vs[j] THEN "True" ELSE "False"
        ELSE IF strict THEN "raise" ELSE "False"

\* np.isin(mask_arr, vals): elementwise membership
isin_first(a, vs) ==
    [k \in 1 .. Len(a.data) |-> vs # <<>> /\ a.data[k] = vs[1]]

isin(a, vs) ==
    [k \in 1 .. Len(a.data) |-> \E j \in 1 .. Len(vs) : vs[j] = a.data[k]]

\* mask_arr.astype(bool)
astype_bool(a) == [k \in 1 .. Len(a.data) |-> a.data[k] # 0]

BoolAsInt(b) == IF b THEN 1 ELSE 0

\* np.array_equal(mask_arr, mask_arr.astype(bool)): True compares equal to 1
array_equal_bool(a, bs) ==
    \A k \in 1 .. Len(a.data) : a.data[k] = BoolAsInt(bs[k])

\* input_mask == 1
eq_one_nonzero(m) == [k \in 1 .. Len(m.data) |-> m.data[k] # 0]

eq_one(m) == [k \in 1 .. Len(m.data) |-> m.data[k] = 1]

np_any(bs) == \E k \in 1 .. Len(bs) : bs[k]

\* np.broadcast_to(b, shape) for b of shape from
CanBroadcast(from, shape) ==
    /\ from[1] = shape[1] \/ from[1] = 1
    /\ from[2] = shape[2] \/ from[2] = 1

broadcast_to(bs, from, shape) ==
    [k \in 1 .. Size(shape) |->
        bs[Idx(from,
               IF from[1] = 1 THEN 1 ELSE Row(shape, k),
               IF from[2] = 1 THEN 1 ELSE Col(shape, k))]]

logical_or(x, y) == [k \in 1 .. Len(x) |-> x[k] \/ y[k]]

\* ma.masked_array(arr, mask=m): keep_mask=True, so a MaskedArray input
\* keeps its own exclusions; the data is arr's data
masked_array_fill(a, m) ==
    [shape |-> a.shape,
     data |-> [k \in 1 .. Len(a.data) |-> IF m[k] THEN 1 ELSE a.data[k]],
     masked |-> TRUE,
     mask |-> IF a.masked THEN logical_or(m, a.mask) ELSE m]

masked_array(a, m) ==
    [shape |-> a.shape,
     data |-> a.data,
     masked |-> TRUE,
     mask |-> IF a.masked THEN logical_or(m, a.mask) ELSE m]

\* ---------------------------------------------------------------- outcomes
NoArray == ndarray(<<0, 0>>, <<>>)

Return(res) == [exc |-> "none", site |-> "return", res |-> res]

Raise(exc, site) == [exc |-> exc, site |-> site, res |-> NoArray]

\* The outcome of a call and the caller's mask_arr and vals objects after it.
Call(o, m, vs) == [out |-> o, mask_arr |-> m, vals |-> vs]

\* ------------------------------------------------------------ _create_mask
\* vals.sort() raises AttributeError on None (re-raised on line 113) before
\* anything is touched; otherwise the function returns the array object it
\* was given, overwritten in place, and leaves the caller's list sorted.
create_mask_recompute(a, vs) ==
    IF vs.none
    THEN Call(Raise("AttributeError", "NotAList"), a, vs)
    ELSE LET sorted == list_sort(vs.items)
             d1 == [k \in 1 .. Len(a.data) |->
                      IF isin(a, sorted)[k] THEN 1 ELSE a.data[k]]
             a1 == [a EXCEPT !.data = d1]
             d2 == [k \in 1 .. Len(a.data) |->
                      IF ~isin(a1, sorted)[k] THEN 0 ELSE d1[k]]
             ret == [a EXCEPT !.data = d2]
         IN  Call(Return(ret), ret, PyList(sorted))

_create_mask(a, vs) ==
    IF vs.none
    THEN Call(Raise("AttributeError", "NotAList"), a, vs)
    ELSE LET sorted == list_sort(vs.items)
             temp_mask == isin(a, sorted)
             d1 == [k \in 1 .. Len(a.data) |->
                      IF temp_mask[k] THEN 1 ELSE a.data[k]]
             d2 == [k \in 1 .. Len(a.data) |->
                      IF ~temp_mask[k] THEN 0 ELSE d1[k]]
             ret == [a EXCEPT !.data = d2]
         IN  Call(Return(ret), ret, PyList(sorted))

\* ------------------------------------------------------------- _apply_mask
_apply_mask(a, input_mask) ==
    IF ~np_any(eq_one(input_mask)) THEN Raise("ValueError", "InvalidMask")
    ELSE IF ~CanBroadcast(input_mask.shape, a.shape)
    THEN Raise("ValueError", "Broadcast")
    ELSE LET bc == broadcast_to(eq_one(input_mask), input_mask.shape, a.shape)
             cover_mask == IF a.masked THEN logical_or(a.mask, bc) ELSE bc
         IN  Return(masked_array(a, cover_mask))

\* ---------------------------------------------------------- shared memory
\* The caller may pass a data array that shares memory with mask_arr:
\*   "none"  two unrelated arrays
\*   "same"  mask_pixels(x, x, vals): one array object in both places
\*   "band"  mask_arr is the view arr[0:1], the first row of the data array
Sharings == {"none", "same", "band"}

\* the data array that shares memory with the array m in the way share says
SharedData(m, share) ==
    IF share = "same" THEN m
    ELSE LET sh == <<2, m.shape[2]>>
         IN  ndarray(sh, m.data \o SubSeq(arange(sh).data, Len(m.data) + 1, Size(sh)))

\* the data array a once the in-place writes mask_arr[temp_mask] = 1 and
\* mask_arr[~temp_mask] = 0 have left m_after in the shared memory
WriteThrough(a, m_after, share) ==
    IF share = "none" THEN a
    ELSE IF share = "same" THEN [a EXCEPT !.data = m_after.data]
    ELSE [a EXCEPT !.data =
            m_after.data \o SubSeq(a.data, Len(m_after.data) + 1, Len(a.data))]

\* ------------------------------------------------------------- mask_pixels
\* The outcome of mask_pixels and the caller's mask_arr, vals and arr objects
\* after the call.
PixCall(o, m, vs, a) == [out |-> o, mask_arr |-> m, vals |-> vs, arr |-> a]

\* variant: the mask is built on a copy, the caller's objects are left alone
mask_pixels_copy(a, m, vs, strict, share) ==
    IF Truthy(vs) THEN
        LET found == ndarray_contains(np_unique(m), vs.items, strict)
        IN  IF found = "raise"
            THEN PixCall(Raise("ValueError", "CompareShape"), m, vs, a)
            ELSE IF found = "False"
            THEN PixCall(Raise("ValueError", "ValueNotFound"), m, vs, a)
            ELSE LET c == _create_mask(m, vs)
                 IN  IF c.out.exc # "none" THEN PixCall(c.out, m, vs, a)
                     ELSE PixCall(_apply_mask(a, c.out.res), m, vs, a)
    ELSE
        IF array_equal_bool(m, astype_bool(m))
        THEN PixCall(Raise("AttributeError", "NotABinaryMask"), m, vs, a)
        ELSE PixCall(_apply_mask(a, m), m, vs, a)

\* variant: the mask is built before the presence check is made
mask_pixels_eager(a, m, vs, strict, share) ==
    IF Truthy(vs) THEN
        LET found == ndarray_contains(np_unique(m), vs.items, strict)
            c == _create_mask(m, vs)
            a1 == WriteThrough(a, c.mask_arr, share)
        IN  IF found = "raise"
            THEN PixCall(Raise("ValueError", "CompareShape"), c.mask_arr, c.vals, a1)
            ELSE IF found = "False"
            THEN PixCall(Raise("ValueError", "ValueNotFound"), c.mask_arr, c.vals, a1)
            ELSE IF c.out.exc # "none" THEN PixCall(c.out, c.mask_arr, c.vals, a1)
            ELSE PixCall(_apply_mask(a1, c.out.res), c.mask_arr, c.vals, a1)
    ELSE
        IF array_equal_bool(m, astype_bool(m))
        THEN PixCall(Raise("AttributeError", "NotABinaryMask"), m, vs, a)
        ELSE PixCall(_apply_mask(a, m), m, vs, a)

\* An exception of _create_mask ends mask_pixels too.  _create_mask writes
\* into mask_arr's memory (lines 122-123) before _apply_mask reads arr, so a
\* data array sharing that memory is read with the mask already in it.
mask_pixels(a, m, vs, strict, share) ==
    IF Truthy(vs) THEN
        LET mask_vals == np_unique(m)
            found == ndarray_contains(mask_vals, vs.items, strict)
        IN  IF found = "raise"
            THEN PixCall(Raise("ValueError", "CompareShape"), m, vs, a)
            ELSE IF found = "False"
            THEN PixCall(Raise("ValueError", "ValueNotFound"), m, vs, a)
            ELSE LET c == _create_mask(m, vs)
                     a1 == WriteThrough(a, c.mask_arr, share)
                 IN  IF c.out.exc # "none"
                     THEN PixCall(c.out, c.mask_arr, c.vals, a)
                     ELSE PixCall(_apply_mask(a1, c.out.res), c.mask_arr,
                                  c.vals, a1)
    ELSE
        IF array_equal_bool(m, astype_bool(m))
        THEN PixCall(Raise("AttributeError", "NotABinaryMask"), m, vs, a)
        ELSE PixCall(_apply_mask(a, m), m, vs, a)

\* ------------------------------------------------------------------ inputs
QAArrays ==
    UNION {{ndarray(sh, d) : d \in [1 .. Size(sh) -> QAValues]} : sh \in MaskShapes}

ValLists == {PyList(s) : s \in UNION {[1 .. n -> QAValues] : n \in 0 .. MaxVals}}

\* what a caller passes as vals: nothing (None) or a list, possibly empty
ValArgs == ValLists \cup {PyNone}

\* a data array that is already a MaskedArray, with each possible mask
Masked(sh) ==
    {[arange(sh) EXCEPT !.masked = TRUE, !.mask = pm] :
        pm \in [1 .. Size(sh) -> BOOLEAN]}

\* the docstring example of mask_pixels
DocShape == <<3, 3>>
DocData == arange(DocShape)
DocMask == ndarray(DocShape, <<1, 1, 1, 0, 0, 0, 1, 1, 1>>)
DocVals == PyList(<<1>>)

\* data arrays handed to _apply_mask: plain or already masked, every shape
ApplyData ==
    UNION {{arange(sh)} \cup Masked(sh) : sh \in DataShapes} \cup {DocData}

\* data arrays handed to mask_pixels: plain in every shape, already masked
\* in the one-row shapes
PixelData ==
    {arange(sh) : sh \in DataShapes}
        \cup UNION {Masked(sh) : sh \in {s \in DataShapes : s[1] = 1}}
        \cup {DocData}

\* data arrays for following the values: in every shape a plain array and a
\* MaskedArray whose first element is excluded already
ValuesData ==
    UNION {{arange(sh),
            [arange(sh) EXCEPT !.masked = TRUE,
                               !.mask = [k \in 1 .. Size(sh) |-> k = 1]]} :
               sh \in DataShapes}

\* ------------------------------------------------------------------- state
VARIABLES
    arr,         \* the data array passed to the latest call, after the call
    mask_arr,    \* the caller's QA / mask array object
    vals,        \* the caller's vals object: PyNone or a PyList
    out,         \* outcome of the latest call
    pre,         \* arr, mask_arr and vals as they were when the call began
    log,         \* calls made: how many, the first [op, site], the latest op
    q0, v0,      \* mask_arr and vals as the caller built them
    numpy_strict \* numpy >= 1.25: == raises on shapes that do not broadcast

vars == <<arr, mask_arr, vals, out, pre, log, q0, v0, numpy_strict>>

\* the record of the calls: none made yet / one more made
NoCalls == [n |-> 0, first |-> [op |-> "init", site |-> "init"], last |-> "init"]

Logged(l, op, site) ==
    [n |-> l.n + 1,
     first |-> IF l.n = 0 THEN [op |-> op, site |-> site] ELSE l.first,
     last |-> op]

InitWith(Q, V) ==
    /\ q0 = Q
    /\ v0 = V
    /\ mask_arr = Q
    /\ vals = V
    /\ numpy_strict \in BOOLEAN
    /\ arr = NoArray
    /\ out = Raise("none", "init")
    /\ pre = [arr |-> NoArray, mask_arr |-> Q, vals |-> V, share |-> "none"]
    /\ log = NoCalls

\* callers of mask_pixels and _create_mask: any QA array, any list
Init ==
    \/ \E Q \in QAArrays, V \in ValArgs : InitWith(Q, V)
    \/ InitWith(DocMask, DocVals)

\* callers of _apply_mask: any mask array, no list
InitApply == \E Q \in QAArrays \cup {DocMask} : InitWith(Q, PyNone)

\* A call is made with the data array D, which shares memory with mask_arr
\* as share says; pre keeps the arguments as they are when the call begins.
Begin(D, share) ==
    /\ log.n < MaxCalls
    /\ pre' = [arr |-> D, mask_arr |-> mask_arr, vals |-> vals, share |-> share]
    /\ UNCHANGED <<q0, v0, numpy_strict>>

MaskPixelsCall(D, share) ==
    /\ Begin(D, share)
    /\ LET c == mask_pixels(D, mask_arr, vals, numpy_strict, share)
       IN  /\ out' = c.out
           /\ mask_arr' = c.mask_arr
           /\ vals' = c.vals
           /\ arr' = c.arr
           /\ log' = Logged(log, "mask_pixels", c.out.site)

\* mask_pixels on a data array that shares memory with mask_arr
MaskPixelsSharedCall(share) ==
    /\ share = "band" => mask_arr.shape[1] = 1
    /\ MaskPixelsCall(SharedData(mask_arr, share), share)

CreateMaskCall ==
    /\ Begin(NoArray, "none")
    /\ arr' = NoArray
    /\ LET c == _create_mask(mask_arr, vals)
       IN  /\ out' = c.out
           /\ mask_arr' = c.mask_arr
           /\ vals' = c.vals
           /\ log' = Logged(log, "_create_mask", c.out.site)

\* _apply_mask writes to none of its arguments
ApplyMaskCall(D) ==
    /\ Begin(D, "none")
    /\ arr' = D
    /\ out' = _apply_mask(D, mask_arr)
    /\ log' = Logged(log, "_apply_mask", out'.site)
    /\ UNCHANGED <<mask_arr, vals>>

\* _apply_mask(_apply_mask(D, M), M): the previous result is the data array
ReapplyMaskCall ==
    /\ log.last \in {"_apply_mask", "reapply"}
    /\ out.exc = "none"
    /\ Begin(out.res, "none")
    /\ arr' = out.res
    /\ out' = _apply_mask(out.res, mask_arr)
    /\ log' = Logged(log, "reapply", out'.site)
    /\ UNCHANGED <<mask_arr, vals>>

\* mask_pixels, called again and again on the caller's objects
Next ==
    \/ \E D \in PixelData : MaskPixelsCall(D, "none")
    \/ \E share \in Sharings \ {"none"} : MaskPixelsSharedCall(share)

Spec == Init /\ [][Next]_vars

\* _create_mask on its own
NextCreate == CreateMaskCall

SpecCreate == Init /\ [][NextCreate]_vars

\* _apply_mask on its own, also applied again to its own result
NextApply ==
    \/ \E D \in ApplyData : ApplyMaskCall(D)
    \/ ReapplyMaskCall

SpecApply == InitApply /\ [][NextApply]_vars

\* mask_pixels and _apply_mask, each called on the caller's objects
NextValues ==
    \/ \E D \in ValuesData : MaskPixelsCall(D, "none")
    \/ \E share \in Sharings \ {"none"} : MaskPixelsSharedCall(share)
    \/ \E sh \in DataShapes : ApplyMaskCall(arange(sh))
    \/ ReapplyMaskCall

SpecValues == Init /\ [][NextValues]_vars

\* ======================================================= checked properties
LastOp == log.last

\* the latest call was mask_pixels with a non-empty vals / without vals
ValueDriven == LastOp = "mask_pixels" /\ Truthy(pre.vals)

PreBuilt == LastOp = "mask_pixels" /\ ~Truthy(pre.vals)

\* the presence check of mask_pixels ended the call (either numpy)
CheckFailed == out.site \in {"ValueNotFound", "CompareShape"}

\* the element of m that broadcasting puts at flat position k of shape
At(m, shape, k) ==
    m.data[Idx(m.shape,
               IF m.shape[1] = 1 THEN 1 ELSE Row(shape, k),
               IF m.shape[2] = 1 THEN 1 ELSE Col(shape, k))]

\* b is the 0/1 mask of the array q for the list vs
IsMaskOf(b, q, vs) ==
    /\ b.shape = q.shape
    /\ Len(b.data) = Len(q.data)
    /\ \A k \in 1 .. Len(q.data) :
          b.data[k] = IF q.data[k] \in Range(vs) THEN 1 ELSE 0

\* the 0/1 mask of q for the list vs
MaskOf(q, vs) ==
    [q EXCEPT !.data = [k \in 1 .. Len(q.data) |->
                          IF q.data[k] \in Range(vs) THEN 1 ELSE 0]]

\* every list holding the entries of s in some order
Orderings(s) ==
    {t \in [1 .. Len(s) -> Range(s)] :
        \A x \in Range(s) :
            Cardinality({i \in 1 .. Len(s) : t[i] = x})
                = Cardinality({i \in 1 .. Len(s) : s[i] = x})}

\* C1 (as claimed): a value-driven mask_pixels call raises ValueNotFound if
\* and only if some element of vals occurs nowhere in the QA array.
C1_ValueNotFoundIffMissingValue ==
    ValueDriven =>
        (CheckFailed <=> \E v \in Range(pre.vals.items) : v \notin Elements(pre.mask_arr))

\* C2 (as claimed): without vals, mask_pixels raises NotABinaryMask exactly
\* when the mask array holds an element other than 0/1, and an all-0/1 array
\* goes to _apply_mask unchanged.
C2_RejectsExactlyNonBinaryArrays ==
    PreBuilt =>
        /\ out.site = "NotABinaryMask"
              <=> \E x \in Elements(pre.mask_arr) : x \notin {0, 1}
        /\ Elements(pre.mask_arr) \subseteq {0, 1}
              => out = _apply_mask(pre.arr, pre.mask_arr)

\* C3 (as claimed): without vals, a mask array holding no 1 makes mask_pixels
\* raise InvalidMask (the ValueError of _apply_mask).
C3_MaskWithoutOnesRaisesInvalidMask ==
    (PreBuilt /\ 1 \notin Elements(pre.mask_arr)) =>
        (out.exc = "ValueError" /\ out.site = "InvalidMask")

\* C4: _create_mask(Q, V) with V non-empty returns an array of Q's shape
\* holding 1 exactly where Q's original element is in V and 0 elsewhere, and
\* every ordering of V gives that same array.
C4_CreateMaskIsMembership ==
    (LastOp = "_create_mask" /\ Truthy(pre.vals)) =>
        /\ out.exc = "none"
        /\ IsMaskOf(out.res, pre.mask_arr, pre.vals.items)
        /\ \A t \in Orderings(pre.vals.items) :
              _create_mask(pre.mask_arr, PyList(t)).out.res = out.res

C4_Witness ==
    /\ LastOp = "_create_mask"
    /\ Len(pre.vals.items) = 2
    /\ pre.vals.items[1] > pre.vals.items[2]
    /\ Elements(pre.mask_arr) \ Range(pre.vals.items) # {}
    /\ Elements(pre.mask_arr) \ {0, 1} # {}
    /\ Elements(out.res) = {0, 1}

\* C5: for a mask M holding a 1 and broadcastable to D's shape, the flags of
\* _apply_mask(D, M) are broadcast(M == 1), OR-ed with D's own flags when D
\* is a masked array; no excluded element becomes included, and applying M
\* again to the result leaves the flags as they are.
C5_ApplyMaskIsUnion ==
    (/\ LastOp \in {"_apply_mask", "reapply"}
     /\ 1 \in Elements(mask_arr)
     /\ CanBroadcast(mask_arr.shape, pre.arr.shape)) =>
        /\ out.exc = "none"
        /\ Len(out.res.mask) = Size(pre.arr.shape)
        /\ \A k \in 1 .. Size(pre.arr.shape) :
              out.res.mask[k] <=>
                  \/ At(mask_arr, pre.arr.shape, k) = 1
                  \/ pre.arr.masked /\ pre.arr.mask[k]
        /\ pre.arr.masked =>
              \A k \in 1 .. Size(pre.arr.shape) :
                  pre.arr.mask[k] => out.res.mask[k]
        /\ LastOp = "reapply" => out.res.mask = pre.arr.mask

C5_Witness ==
    /\ LastOp = "reapply"
    /\ out.exc = "none"
    /\ mask_arr.shape # pre.arr.shape
    /\ Elements(mask_arr) \ {0, 1} # {}
    /\ \E k \in 1 .. Size(pre.arr.shape) :
          out.res.mask[k] /\ At(mask_arr, pre.arr.shape, k) # 1
    /\ \E k \in 1 .. Size(pre.arr.shape) : ~out.res.mask[k]

\* C6: when a value-driven mask_pixels(D, Q, V) returns, the flag at each
\* position is true exactly where the original Q value there (broadcast to
\* D's shape) is in V, or D was excluded already; the docstring example
\* returns flags T,T,T / F,F,F / T,T,T with 3, 4, 5 visible.
C6_ValueDrivenFlags ==
    /\ (ValueDriven /\ out.exc = "none") =>
          /\ out.res.shape = pre.arr.shape
          /\ Len(out.res.mask) = Size(pre.arr.shape)
          /\ \A k \in 1 .. Size(pre.arr.shape) :
                out.res.mask[k] <=>
                    \/ At(pre.mask_arr, pre.arr.shape, k) \in Range(pre.vals.items)
                    \/ pre.arr.masked /\ pre.arr.mask[k]
    /\ (/\ LastOp = "mask_pixels"
        /\ pre = [arr |-> DocData, mask_arr |-> DocMask, vals |-> DocVals,
               share |-> "none"]) =>
          /\ out.exc = "none"
          /\ out.res.mask
                = <<TRUE, TRUE, TRUE, FALSE, FALSE, FALSE, TRUE, TRUE, TRUE>>
          /\ {out.res.data[k] : k \in {i \in 1 .. 9 : ~out.res.mask[i]}}
                = {3, 4, 5}

C6_Witness ==
    /\ LastOp = "mask_pixels"
    /\ pre = [arr |-> DocData, mask_arr |-> DocMask, vals |-> DocVals,
               share |-> "none"]
    /\ out.exc = "none"
    /\ out.res.mask[1] /\ ~out.res.mask[5]

\* the latest call was mask_pixels or _apply_mask and it returned
Returned ==
    LastOp \in {"mask_pixels", "_apply_mask", "reapply"} /\ out.exc = "none"

\* the latest call built its mask in memory that the data array shares
WroteShared == ValueDriven /\ pre.share # "none"

\* C7 (as claimed): every successful mask_pixels / _apply_mask call returns
\* a masked array of the data array's shape whose value at every position,
\* excluded or not, is the data array's value before the call, and the data
\* array holds the same values after the call.
C7_ValuesPreserved ==
    Returned =>
        /\ out.res.masked
        /\ out.res.shape = pre.arr.shape
        /\ out.res.data = pre.arr.data
        /\ arr.data = pre.arr.data

\* C7 (amended): the result has the data array's shape and wraps the values
\* the data array holds after the call.  They are the values it held before
\* the call for every _apply_mask call, every call without vals and every
\* call whose data array shares no memory with mask_arr; in a value-driven
\* call whose data array shares memory with mask_arr the shared elements hold
\* the 0/1 mask afterwards, in the data array and in the result, and the
\* other elements are as before.
C7_ValuesPreservedUnlessShared ==
    Returned =>
        /\ out.res.masked
        /\ out.res.shape = pre.arr.shape
        /\ arr.shape = pre.arr.shape
        /\ out.res.data = arr.data
        /\ Len(arr.data) = Len(pre.arr.data)
        /\ \A k \in 1 .. Len(pre.arr.data) :
              arr.data[k] =
                  IF WroteShared /\ k <= Len(pre.mask_arr.data)
                  THEN (IF pre.mask_arr.data[k] \in Range(pre.vals.items)
                        THEN 1 ELSE 0)
                  ELSE pre.arr.data[k]

C7_Witness ==
    /\ LastOp = "mask_pixels"
    /\ out.exc = "none"
    /\ pre.share = "band"
    /\ arr.data # pre.arr.data
    /\ \E k \in 1 .. Len(arr.data) :
          /\ k > Len(pre.mask_arr.data)
          /\ out.res.mask[k]
          /\ out.res.data[k] = pre.arr.data[k]
          /\ out.res.data[k] # 1

\* the second of two mask_pixels calls made with the caller's Q and V
SecondCall ==
    /\ log.n = 2
    /\ log.first.op = "mask_pixels"
    /\ log.last = "mask_pixels"

\* C8 (as claimed): after mask_pixels(D1, Q, V) has returned, a following
\* mask_pixels(D2, Q, V) with the same Q and V has the outcome it would have
\* had as the first call made with Q.
C8_SecondCallAsIfFirst ==
    (SecondCall /\ log.first.site = "return") =>
        out = mask_pixels(pre.arr, q0, v0, numpy_strict, pre.share).out

\* C8 (amended): a following call has the first-call outcome when the earlier
\* call was made without vals or was ended by the presence check, which
\* leave Q and V alone; after a value-driven call that passed the presence
\* check Q holds the 0/1 mask built from it and V is sorted, and the
\* following call has the outcome of a first call made with that mask.
C8_SecondCallSeesWhatFirstLeft ==
    SecondCall =>
        IF ~Truthy(v0) \/ log.first.site \in {"ValueNotFound", "CompareShape"}
        THEN out = mask_pixels(pre.arr, q0, v0, numpy_strict, pre.share).out
        ELSE /\ IsMaskOf(pre.mask_arr, q0, v0.items)
             /\ pre.vals = PyList(list_sort(v0.items))
             /\ out = mask_pixels(pre.arr, MaskOf(q0, v0.items),
                                  PyList(list_sort(v0.items)),
                                  numpy_strict, pre.share).out

C8_Witness ==
    /\ SecondCall
    /\ log.first.site = "return"
    /\ out.site = "ValueNotFound"
    /\ mask_pixels(pre.arr, q0, v0, numpy_strict, pre.share).out.exc = "none"

\* C9 (as claimed): mask_pixels changes the caller's QA array only when a
\* value-driven call returns, and then it holds the 0/1 mask; without vals
\* and whenever the call raises, the array is as it was.
C9_MaskArrChangedOnlyOnReturn ==
    LastOp = "mask_pixels" =>
        IF Truthy(pre.vals) /\ out.exc = "none"
        THEN IsMaskOf(mask_arr, pre.mask_arr, pre.vals.items)
        ELSE mask_arr = pre.mask_arr

\* C9 (amended): the QA array is overwritten with the 0/1 mask by every
\* value-driven call that passes the presence check, also when _apply_mask
\* then raises because the mask cannot be broadcast to the data shape; it is
\* as it was without vals and after ValueNotFound, NotABinaryMask and
\* InvalidMask.
C9_MaskArrChangedOncePresenceCheckPasses ==
    LastOp = "mask_pixels" =>
        IF Truthy(pre.vals) /\ ~CheckFailed
        THEN /\ out.site \in {"return", "Broadcast"}
             /\ IsMaskOf(mask_arr, pre.mask_arr, pre.vals.items)
        ELSE mask_arr = pre.mask_arr

C9_Witness ==
    /\ ValueDriven
    /\ out.site = "Broadcast"
    /\ mask_arr # pre.mask_arr
    /\ IsMaskOf(mask_arr, pre.mask_arr, pre.vals.items)

\* C10: a value-driven call that passes the presence check builds a mask
\* holding at least one 1, so it never raises InvalidMask.
C10_ValueDrivenNeverInvalidMask ==
    ValueDriven =>
        /\ out.site # "InvalidMask"
        /\ ~CheckFailed => 1 \in Elements(mask_arr)

C10_Witness ==
    /\ ValueDriven
    /\ out.exc = "none"
    /\ \E v \in Range(pre.vals.items) : v \notin Elements(pre.mask_arr)
    /\ 0 \in Elements(mask_arr)

====
